---- MODULE Spec2Model ----
(***************************************************************************)
(* Model of authai_core_cloud.py: the simulated detection monitor          *)
(* (CloudRealTimeMonitor), the bot simulator timer (CloudBotSimulator)     *)
(* and the model loader (load_best_model_and_meta).                        *)
(*                                                                         *)
(* Numbers: scores and probabilities are in hundredths (0.5 is 50),        *)
(* feature values are in hundredths (150.0 is 15000), and the bot          *)
(* simulator's time is in units of step_interval (0.5 s).                  *)
(* An Optional value is a sequence of length 0 (None) or 1.               *)
(***************************************************************************)
EXTENDS Integers, Sequences, FiniteSets, TLC

VARIABLES
    \* ---- CloudRealTimeMonitor
    hasProba,      \* hasattr(self.model, 'predict_proba')
    scaler,        \* self.scaler is present
    model_name,    \* self.model_name
    is_running,    \* self.is_running
    logFile,       \* detections_log.csv: [exists, rows], rows are lists of cells
    console,       \* how many times each line was printed so far
    ticks,         \* calls of run_detection_once so far (also the clock)
    toggles,       \* calls of start/stop so far
    lastToggle,    \* "none", "start" or "stop": the last of start/stop called
    lastTick,      \* what the last run_detection_once did
    nReturned,     \* calls of run_detection_once that returned a record
    nAppended,     \* rows the monitor appended
    startedAbsent, \* the log file did not exist at construction
    removedEver,   \* the log file was removed after construction
    \* ---- CloudBotSimulator
    bot_is_running, botPc, now, start_time, clearedEver, clearedSinceSet,
    \* ---- load_best_model_and_meta
    fs, libs, loaderPc, loaderIdx, loaderResult, loadedModels, loaderOut

monVars == <<hasProba, scaler, model_name, is_running, logFile, console, ticks,
             toggles, lastToggle, lastTick, nReturned, nAppended,
             startedAbsent, removedEver>>
botVars == <<bot_is_running, botPc, now, start_time, clearedEver, clearedSinceSet>>
loaderVars == <<fs, libs, loaderPc, loaderIdx, loaderResult, loadedModels, loaderOut>>
vars == <<monVars, botVars, loaderVars>>

\* ---- bounds of the model
MaxTicks == 2
MaxToggles == 2

(***************************************************************************)
(* CloudRealTimeMonitor                                                    *)
(***************************************************************************)

\* The order the model's input array is assembled in.
FeatureOrder == <<"avg_mouse_speed", "avg_typing_speed", "tab_switch_rate",
                  "mouse_click_rate", "keyboard_error_rate",
                  "active_window_duration">>

FeatureNames == {FeatureOrder[i] : i \in 1..Len(FeatureOrder)}

headers == <<"timestamp", "user_id", "model", "score", "is_improper",
             "avg_mouse_speed", "avg_typing_speed", "tab_switch_rate",
             "mouse_click_rate", "keyboard_error_rate",
             "active_window_duration">>

\* The order _log_detection writes a detection's fields in.
LogOrder == <<"timestamp", "user_id", "model", "score", "is_improper",
              "avg_mouse_speed", "avg_typing_speed", "tab_switch_rate",
              "mouse_click_rate", "keyboard_error_rate",
              "active_window_duration">>

base_features == [avg_mouse_speed |-> 15000, avg_typing_speed |-> 20000,
                  tab_switch_rate |-> 50, mouse_click_rate |-> 200,
                  keyboard_error_rate |-> 5, active_window_duration |-> 1000]

feature_variance == [avg_mouse_speed |-> 5000, avg_typing_speed |-> 8000,
                     tab_switch_rate |-> 20, mouse_click_rate |-> 100,
                     keyboard_error_rate |-> 3, active_window_duration |-> 500]

\* random.gauss(0, variance) is drawn as a whole multiple of the variance;
\* one draw per feature.
GaussDraws ==
    { [avg_mouse_speed |-> -4, avg_typing_speed |-> -4, tab_switch_rate |-> -4,
       mouse_click_rate |-> -4, keyboard_error_rate |-> -4,
       active_window_duration |-> -4],
      [avg_mouse_speed |-> 1, avg_typing_speed |-> -1, tab_switch_rate |-> -3,
       mouse_click_rate |-> 0, keyboard_error_rate |-> 2,
       active_window_duration |-> -2] }

NoFile == [exists |-> FALSE, rows |-> <<>>]

\* A row left in the log by an earlier run of the program.
OldRow == <<"T0", "cloud_user", "RandomForest", "30", "0",
            "15000", "20000", "50", "200", "5", "1000">>

\* The log file as the constructor may find it.
PreExistingFiles == {NoFile, [exists |-> TRUE, rows |-> <<headers, OldRow>>]}

\* As _init_log_file, but the file is created without its header row.
_init_log_file_no_header(file) ==
    IF ~file.exists THEN [exists |-> TRUE, rows |-> <<>>] ELSE file

_init_log_file(file) ==
    IF ~file.exists THEN [exists |-> TRUE, rows |-> <<headers>>] ELSE file

_generate_simulated_features(z) ==
    [f \in FeatureNames |->
        LET v == base_features[f] + z[f] * feature_variance[f]
        IN  IF v > 0 THEN v ELSE 0]

feature_array(features) ==
    [i \in 1..Len(FeatureOrder) |-> features[FeatureOrder[i]]]

\* self.scaler.transform: a fitted scaler that centres every column.
scaler_transform(arr) ==
    [i \in 1..Len(arr) |-> arr[i] - base_features[FeatureOrder[i]]]

\* What the model may answer: the row predict_proba(...)[0], or the array
\* predict(...) of which [0] is the label; or it raises.
ProbaOutputs == {<<90, 10>>, <<10, 90>>, <<50, 50>>, <<70>>}
LabelOutputs == {<<-1>>, <<1>>, <<0>>}
ModelOutputs(proba) ==
    {[raises |-> TRUE, vals |-> <<>>]} \cup
    {[raises |-> FALSE, vals |-> v] :
        v \in (IF proba THEN ProbaOutputs ELSE LabelOutputs)}

\* As ScoreFromProba, but always reading index 0.
ScoreFromProbaFirst(pred_proba) == pred_proba[1]

ScoreFromProba(pred_proba) ==
    IF Len(pred_proba) > 1 THEN pred_proba[2] ELSE pred_proba[1]

\* As ScoreFromLabel, but passing the label on as the score.
ScoreFromLabelRaw(pred) == pred * 100

ScoreFromLabel(pred) == IF pred = -1 THEN 80 ELSE 20

\* As ImproperOf, but with the threshold itself counted as improper.
ImproperOfAtLeast(score) == IF score >= 50 THEN 1 ELSE 0

ImproperOf(score) == IF score > 50 THEN 1 ELSE 0

\* As DefaultPrediction, but failing towards "Robot".
DefaultPredictionImproper ==
    [score |-> 90, is_improper |-> 1, prediction |-> "Robot"]

DefaultPrediction == [score |-> 10, is_improper |-> 0, prediction |-> "Person"]

\* The result dict, the arrays the model was invoked with, whether the
\* except branch ran.
_predict_with_model(proba, hasScaler, features, out, scalerRaises) ==
    LET raw == feature_array(features)
        arr == IF hasScaler THEN scaler_transform(raw) ELSE raw
        failsBefore == hasScaler /\ scalerRaises
        fails == failsBefore \/ out.raises \/ Len(out.vals) = 0
        score == IF proba THEN ScoreFromProba(out.vals)
                 ELSE ScoreFromLabel(out.vals[1])
        is_improper == ImproperOf(score)
    IN  IF fails
        THEN [result |-> DefaultPrediction,
              invoked |-> IF failsBefore THEN <<>> ELSE <<arr>>,
              failed |-> TRUE]
        ELSE [result |-> [score |-> score, is_improper |-> is_improper,
                          prediction |-> IF is_improper = 1 THEN "Robot"
                                         ELSE "Person"],
              invoked |-> <<arr>>,
              failed |-> FALSE]

\* datetime.now(timezone.utc).isoformat() at the t-th tick.
isoformat(t) == "T" \o ToString(t)

Detection(t, name, prediction_result, features) ==
    features @@ [timestamp |-> isoformat(t), user_id |-> "cloud_user",
                 model |-> name, score |-> prediction_result.score,
                 is_improper |-> prediction_result.is_improper]

\* csv.writer writes str(value) for a value that is not a string.
Cell(detection, field) ==
    IF field \in {"timestamp", "user_id", "model"}
    THEN detection[field] ELSE ToString(detection[field])

CsvRow(detection) == [i \in 1..Len(LogOrder) |-> Cell(detection, LogOrder[i])]

\* open(log_file, 'a') creates the file when it is missing; a failure of
\* open or of the write leaves the file as it was.
_log_detection(file, detection, writeFails) ==
    IF writeFails THEN file
    ELSE [exists |-> TRUE, rows |-> Append(file.rows, CsvRow(detection))]

NoTick == [errors |-> {}, features |-> <<>>, invoked |-> <<>>, out |-> <<>>,
           prediction_result |-> <<>>, returned |-> <<>>]

Messages == {"Started cloud simulation monitor",
             "Stopped cloud simulation monitor",
             "Prediction error", "Detection error", "Logging error"}

\* print(msg), once when cond holds
emit(out, msg, cond) ==
    IF cond THEN [out EXCEPT ![msg] = @ + 1] ELSE out

\* _generate_simulated_features raises: the outer except prints and the
\* call returns None.
TickFeatureError ==
    /\ lastTick' = [NoTick EXCEPT !.errors = {"feature"}]
    /\ console' = emit(console, "Detection error", TRUE)
    /\ UNCHANGED <<logFile, nReturned, nAppended>>

TickBody(z, out, scalerRaises, writeFails) ==
    LET features == _generate_simulated_features(z)
        p == _predict_with_model(hasProba, scaler, features, out, scalerRaises)
        detection == Detection(ticks + 1, model_name, p.result, features)
    IN  /\ logFile' = _log_detection(logFile, detection, writeFails)
        /\ console' = emit(emit(console, "Prediction error", p.failed),
                           "Logging error", writeFails)
        /\ lastTick' =
             [errors |-> (IF p.failed THEN {"inference"} ELSE {})
                         \cup (IF writeFails THEN {"logging"} ELSE {}),
              features |-> <<features>>,
              invoked |-> p.invoked,
              out |-> IF p.invoked = <<>> THEN <<>> ELSE <<out>>,
              prediction_result |-> <<p.result>>,
              returned |-> <<detection>>]
        /\ nReturned' = nReturned + 1
        /\ nAppended' = nAppended + (IF writeFails THEN 0 ELSE 1)

run_detection_once ==
    /\ ticks < MaxTicks
    /\ ticks' = ticks + 1
    /\ \/ TickFeatureError
       \/ \E z \in GaussDraws, out \in ModelOutputs(hasProba),
             writeFails \in BOOLEAN :
             TickBody(z, out, FALSE, writeFails)
       \/ /\ scaler
          /\ \E z \in GaussDraws, writeFails \in BOOLEAN :
                TickBody(z, [raises |-> FALSE, vals |-> <<>>], TRUE, writeFails)
    /\ UNCHANGED <<hasProba, scaler, model_name, is_running, toggles,
                   lastToggle, startedAbsent, removedEver>>
    /\ UNCHANGED <<botVars, loaderVars>>

start ==
    /\ toggles < MaxToggles
    /\ toggles' = toggles + 1
    /\ is_running' = TRUE
    /\ console' = emit(console, "Started cloud simulation monitor", TRUE)
    /\ lastToggle' = "start"
    /\ UNCHANGED <<hasProba, scaler, model_name, logFile, ticks, lastTick,
                   nReturned, nAppended, startedAbsent, removedEver>>
    /\ UNCHANGED <<botVars, loaderVars>>

\* As stop, but leaving the flag as it is.
stop_keeps_flag ==
    /\ toggles < MaxToggles
    /\ toggles' = toggles + 1
    /\ console' = emit(console, "Stopped cloud simulation monitor", TRUE)
    /\ lastToggle' = "stop"
    /\ UNCHANGED <<hasProba, scaler, model_name, is_running, logFile, ticks,
                   lastTick, nReturned, nAppended, startedAbsent, removedEver>>
    /\ UNCHANGED <<botVars, loaderVars>>

stop ==
    /\ toggles < MaxToggles
    /\ toggles' = toggles + 1
    /\ is_running' = FALSE
    /\ console' = emit(console, "Stopped cloud simulation monitor", TRUE)
    /\ lastToggle' = "stop"
    /\ UNCHANGED <<hasProba, scaler, model_name, logFile, ticks, lastTick,
                   nReturned, nAppended, startedAbsent, removedEver>>
    /\ UNCHANGED <<botVars, loaderVars>>

\* Something outside the program removes the log file.
RemoveLogFile ==
    /\ logFile.exists
    /\ logFile' = NoFile
    /\ removedEver' = TRUE
    /\ UNCHANGED <<hasProba, scaler, model_name, is_running, console, ticks,
                   toggles, lastToggle, lastTick, nReturned, nAppended,
                   startedAbsent>>
    /\ UNCHANGED <<botVars, loaderVars>>

(***************************************************************************)
(* CloudBotSimulator.  run() is a thread of its own; botPc is the line it  *)
(* is about to execute.  Another thread may clear is_running at any time.  *)
(***************************************************************************)

duration_sec == 30
step_interval == 1

\* As LoopContinues, but with "or" for "and".
LoopContinuesEither(t, t0, flag) == (t - t0 < duration_sec) \/ flag

\* The while condition.
LoopContinues(t, t0, flag) == (t - t0 < duration_sec) /\ flag

\* self.is_running = True
BotSetFlag ==
    /\ botPc = "set"
    /\ bot_is_running' = TRUE
    /\ clearedSinceSet' = FALSE
    /\ botPc' = "stamp"
    /\ UNCHANGED <<now, start_time, clearedEver>>
    /\ UNCHANGED <<monVars, loaderVars>>

\* start_time = time.time()
BotStamp ==
    /\ botPc = "stamp"
    /\ start_time' = now
    /\ botPc' = "check"
    /\ UNCHANGED <<bot_is_running, now, clearedEver, clearedSinceSet>>
    /\ UNCHANGED <<monVars, loaderVars>>

\* while time.time() - start_time < self.duration_sec and self.is_running
BotCheck ==
    /\ botPc = "check"
    /\ botPc' = IF LoopContinues(now, start_time, bot_is_running)
                THEN "sleep" ELSE "final"
    /\ UNCHANGED <<bot_is_running, now, start_time, clearedEver, clearedSinceSet>>
    /\ UNCHANGED <<monVars, loaderVars>>

\* time.sleep(self.step_interval): at least step_interval goes by.
BotSleep ==
    /\ botPc = "sleep"
    /\ \E late \in 0..1 : now' = now + step_interval + late
    /\ botPc' = "check"
    /\ UNCHANGED <<bot_is_running, start_time, clearedEver, clearedSinceSet>>
    /\ UNCHANGED <<monVars, loaderVars>>

\* self.is_running = False, and run returns
BotFinish ==
    /\ botPc = "final"
    /\ bot_is_running' = FALSE
    /\ botPc' = "done"
    /\ UNCHANGED <<now, start_time, clearedEver, clearedSinceSet>>
    /\ UNCHANGED <<monVars, loaderVars>>

BotRun == BotSetFlag \/ BotStamp \/ BotCheck \/ BotSleep \/ BotFinish

\* An external caller clears the flag: simulator.is_running = False
ClearFlag ==
    /\ bot_is_running' = FALSE
    /\ clearedEver' = TRUE
    /\ clearedSinceSet' = (clearedSinceSet \/ botPc \in {"stamp", "check", "sleep"})
    /\ UNCHANGED <<botPc, now, start_time>>
    /\ UNCHANGED <<monVars, loaderVars>>

\* CloudBotSimulator.__init__, and run() has been called
BotCalled ==
    /\ bot_is_running = FALSE /\ botPc = "set" /\ now \in 0..2 /\ start_time = 0
    /\ clearedEver = FALSE /\ clearedSinceSet = FALSE

BotIdle ==
    /\ bot_is_running = FALSE /\ botPc = "idle" /\ now = 0 /\ start_time = 0
    /\ clearedEver = FALSE /\ clearedSinceSet = FALSE


(***************************************************************************)
(* load_best_model_and_meta                                                *)
(***************************************************************************)

\* model_files, in the order the dict is iterated.
model_files == <<[name |-> "RandomForest", path |-> "models/rf_model.joblib"],
                 [name |-> "XGBoost", path |-> "models/xgb_model.joblib"],
                 [name |-> "IsolationForest", path |-> "models/iso_model.joblib"]>>

\* model_path.replace('_model.joblib', '_scaler.joblib')
scaler_path(i) ==
    <<"models/rf_scaler.joblib", "models/xgb_scaler.joblib",
      "models/iso_scaler.joblib">>[i]

\* A file is absent, loads ("ok"), or exists and joblib.load raises on it.
FileStates == {"absent", "ok", "corrupt"}

\* Which libraries can be imported: joblib, and sklearn's classifier.
LibChoices == {[joblib |-> TRUE, sklearn |-> TRUE],
               [joblib |-> TRUE, sklearn |-> FALSE],
               [joblib |-> FALSE, sklearn |-> FALSE]}

\* The outcome of one iteration of the for loop over model_files:
\* "skip" (file missing), "failed" (the except branch: continue) or
\* "return" with the tuple returned.
TryCandidate(i, files) ==
    LET c == model_files[i]
        f == files[i]
    IN  IF f.model = "absent" THEN [kind |-> "skip", loaded |-> FALSE]
        ELSE IF f.model = "corrupt" THEN [kind |-> "failed", loaded |-> FALSE]
        ELSE IF f.scaler = "corrupt" THEN [kind |-> "failed", loaded |-> TRUE]
        ELSE [kind |-> "return", loaded |-> TRUE,
              value |-> <<c.name, c.path,
                          IF f.scaler = "ok" THEN scaler_path(i) ELSE "None",
                          "None">>]

\* import joblib
LoaderImport ==
    /\ loaderPc = "start"
    /\ IF libs.joblib
       THEN /\ loaderPc' = "loop"
            /\ loaderIdx' = 1
            /\ UNCHANGED loaderOut
       ELSE /\ loaderPc' = "raised"
            /\ loaderOut' = Append(loaderOut, "Required libraries not available")
            /\ UNCHANGED loaderIdx
    /\ UNCHANGED <<fs, libs, loaderResult, loadedModels>>
    /\ UNCHANGED <<monVars, botVars>>

\* One iteration of: for model_name, model_path in model_files.items()
LoaderTry ==
    /\ loaderPc = "loop"
    /\ loaderIdx <= Len(model_files)
    /\ LET r == TryCandidate(loaderIdx, fs)
           name == model_files[loaderIdx].name
       IN  /\ loadedModels' = IF r.loaded THEN Append(loadedModels, name)
                               ELSE loadedModels
           /\ loaderOut' = loaderOut
                  \o (IF r.loaded THEN <<"Loaded " \o name>> ELSE <<>>)
                  \o (IF r.kind = "return" /\ r.value[3] # "None"
                      THEN <<"Loaded scaler">> ELSE <<>>)
                  \o (IF r.kind = "failed" THEN <<"Failed to load " \o name>>
                      ELSE <<>>)
           /\ IF r.kind = "return"
              THEN /\ loaderResult' = <<r.value>>
                   /\ loaderPc' = "done"
                   /\ UNCHANGED loaderIdx
              ELSE /\ loaderIdx' = loaderIdx + 1
                   /\ UNCHANGED <<loaderResult, loaderPc>>
    /\ UNCHANGED <<fs, libs>>
    /\ UNCHANGED <<monVars, botVars>>

\* After the loop: the demo classifier, fitted on random data.
LoaderDemo ==
    /\ loaderPc = "loop"
    /\ loaderIdx > Len(model_files)
    /\ IF libs.sklearn
       THEN /\ loaderResult' = <<<<"Demo_RandomForest", "demo_model", "None", "None">>>>
            /\ loaderPc' = "done"
            /\ loaderOut' = loaderOut \o <<"No trained models found",
                                           "Created demo RandomForest model">>
       ELSE /\ loaderPc' = "raised"
            /\ loaderOut' = loaderOut \o <<"No trained models found",
                                           "Required libraries not available">>
            /\ UNCHANGED loaderResult
    /\ UNCHANGED <<fs, libs, loaderIdx, loadedModels>>
    /\ UNCHANGED <<monVars, botVars>>

LoaderCalled ==
    /\ fs \in [1..Len(model_files) -> [model : FileStates, scaler : FileStates]]
    /\ libs \in LibChoices
    /\ loaderPc = "start" /\ loaderIdx = 0
    /\ loaderResult = <<>> /\ loadedModels = <<>> /\ loaderOut = <<>>

LoaderIdle ==
    /\ fs = [i \in 1..Len(model_files) |-> [model |-> "absent", scaler |-> "absent"]]
    /\ libs = [joblib |-> TRUE, sklearn |-> TRUE]
    /\ loaderPc = "idle" /\ loaderIdx = 0
    /\ loaderResult = <<>> /\ loadedModels = <<>> /\ loaderOut = <<>>

(***************************************************************************)
(* Specifications                                                          *)
(***************************************************************************)

\* CloudRealTimeMonitor.__init__ on a log file as found, for one model
\* configuration.
MonitorConstructed(probaChoices, scalerChoices, files) ==
    /\ hasProba \in probaChoices
    /\ scaler \in scalerChoices
    /\ model_name = (IF hasProba THEN "RandomForest" ELSE "IsolationForest")
    /\ is_running = FALSE
    /\ \E pre \in files :
          /\ logFile = _init_log_file(pre)
          /\ startedAbsent = ~pre.exists
    /\ console = [m \in Messages |-> 0]
    /\ ticks = 0
    /\ toggles = 0
    /\ lastToggle = "none"
    /\ lastTick = NoTick
    /\ nReturned = 0
    /\ nAppended = 0
    /\ removedEver = FALSE

\* The detection loop: a monitor of any model configuration, driven by
\* calls of run_detection_once, with the log file at the mercy of its
\* environment.
Init == MonitorConstructed(BOOLEAN, BOOLEAN, PreExistingFiles) /\ BotIdle /\ LoaderIdle

Next == run_detection_once \/ RemoveLogFile

Spec == Init /\ [][Next]_vars

\* The monitor's life cycle: start, stop and ticks in any order, on a
\* monitor built as the module's driver builds it.
InitLifecycle == MonitorConstructed({TRUE}, {FALSE}, {NoFile}) /\ BotIdle /\ LoaderIdle

NextLifecycle == start \/ stop \/ run_detection_once \/ RemoveLogFile

SpecLifecycle == InitLifecycle /\ [][NextLifecycle]_vars

\* The bot simulator: run() in its thread, which the scheduler keeps
\* running, and a caller that may clear the flag.
InitBot == MonitorConstructed({TRUE}, {FALSE}, {NoFile}) /\ BotCalled /\ LoaderIdle

NextBot == BotRun \/ ClearFlag

SpecBot == InitBot /\ [][NextBot]_vars /\ WF_vars(BotRun)

\* The loader, on any state of the models directory.
InitLoader == MonitorConstructed({TRUE}, {FALSE}, {NoFile}) /\ BotIdle /\ LoaderCalled

NextLoader == LoaderImport \/ LoaderTry \/ LoaderDemo

SpecLoader == InitLoader /\ [][NextLoader]_vars

(***************************************************************************)
(* Properties                                                              *)
(***************************************************************************)

\* A step that is one call of run_detection_once.
IsTick == ticks' = ticks + 1

\* The rows of the log file other than header rows.
DataRowIndexes == {i \in 1..Len(logFile.rows) : logFile.rows[i] # headers}

\* The cells csv.writer writes for the scores of S.
ScoreCells(S) == {ToString(x) : x \in S}

\* C1, as claimed: whenever any step of run_detection_once raises (feature
\* generation, inference or scaling, writing the row), the call returns
\* None and no row is appended to the log.
C1_AnyErrorYieldsNoRecord ==
    [][(IsTick /\ lastTick'.errors # {})
        => (lastTick'.returned = <<>> /\ logFile' = logFile)]_vars

\* C1, amended: only an error of feature generation makes the call return
\* None with the log untouched.  An inference or scaling error is absorbed
\* inside _predict_with_model: the call still returns a record, with score
\* 0.1 and is_improper 0, and appends its row unless the write fails.  An
\* error writing the row is absorbed inside _log_detection: the log is
\* untouched and the record is still returned.  A call that raises nothing
\* returns a record and appends one row.
C1_ErrorOutcomes ==
    [][IsTick =>
        /\ ("feature" \in lastTick'.errors)
              => (lastTick'.returned = <<>> /\ logFile' = logFile)
        /\ ("feature" \notin lastTick'.errors) => lastTick'.returned # <<>>
        /\ ("inference" \in lastTick'.errors)
              => /\ lastTick'.returned[1].score = 10
                 /\ lastTick'.returned[1].is_improper = 0
        /\ ("logging" \in lastTick'.errors) => logFile' = logFile
        /\ (lastTick'.errors \cap {"feature", "logging"} = {})
              => Len(logFile'.rows) = Len(logFile.rows) + 1
        /\ (lastTick'.returned = <<>>) => ("feature" \in lastTick'.errors)
      ]_vars

\* C1's case: inference and the row write both raised, and the call still
\* returned a record while the log got no row.
C1_Witness ==
    /\ lastTick.errors = {"inference", "logging"}
    /\ lastTick.returned # <<>>
    /\ nReturned = 1
    /\ nAppended = 0

\* C2: in every record run_detection_once returns and in every data row of
\* the log, is_improper is 1 if and only if the score is strictly greater
\* than 0.5, and 0 otherwise.
C2_ImproperIffScoreAboveHalf ==
    /\ \A k \in 1..Len(lastTick.returned) :
          LET d == lastTick.returned[k]
          IN  /\ d.is_improper \in {0, 1}
              /\ (d.is_improper = 1) <=> (d.score > 50)
    /\ \A i \in DataRowIndexes :
          LET r == logFile.rows[i]
          IN  /\ r[5] \in {"0", "1"}
              /\ (r[5] = "1") <=> (r[4] \in ScoreCells(51..100))

\* C2's case: a record exactly at the threshold (0.5, not improper) was
\* returned while the log holds a row above it (0.9, improper).
C2_Witness ==
    /\ lastTick.returned # <<>>
    /\ lastTick.returned[1].score = 50
    /\ lastTick.returned[1].is_improper = 0
    /\ \E i \in DataRowIndexes :
          logFile.rows[i][4] = "90" /\ logFile.rows[i][5] = "1"

\* The log is one header row followed by n data rows of 11 fields.
HeaderPlusRows(n) ==
    /\ logFile.exists
    /\ Len(logFile.rows) = n + 1
    /\ logFile.rows[1] = headers
    /\ \A i \in 2..Len(logFile.rows) :
          logFile.rows[i] # headers /\ Len(logFile.rows[i]) = 11

\* C3, as claimed: from a log file that did not exist at construction,
\* after N calls that returned a record the file is one header row followed
\* by exactly N data rows of 11 fields, in every reachable state, a removed
\* file and a failed row write included.
C3_HeaderPlusNRows == startedAbsent => HeaderPlusRows(nReturned)

\* C3, amended: from a log file that did not exist at construction, as long
\* as the file has not been removed and no row write has failed, after N
\* calls that returned a record the file is one header row followed by
\* exactly N data rows of 11 fields; in any case the monitor has appended at
\* most N rows, every data row has 11 fields, and a row that is appended
\* holds the record's fields in the header's column order.
C3_HeaderPlusNRowsUnlessDisturbed ==
    /\ [](/\ (startedAbsent /\ ~removedEver /\ nAppended = nReturned)
              => HeaderPlusRows(nReturned)
          /\ nAppended <= nReturned
          /\ \A i \in DataRowIndexes : Len(logFile.rows[i]) = 11)
    /\ [][(IsTick /\ logFile' # logFile)
            => /\ lastTick'.returned # <<>>
               /\ logFile'.rows =
                     Append(logFile.rows,
                            [i \in 1..Len(headers) |->
                                Cell(lastTick'.returned[1], headers[i])])
          ]_vars

\* C3's case: two ticks succeeded on a fresh, undisturbed log.
C3_Witness ==
    /\ startedAbsent /\ ~removedEver
    /\ nReturned = 2 /\ nAppended = 2
    /\ Len(logFile.rows) = 3

\* C4, as claimed: the record run_detection_once yields carries a
\* prediction field that is "Robot" exactly when is_improper is 1 and
\* "Person" otherwise (so "Robot" for class-1 probability 0.9 and "Person"
\* for 0.1).
C4_RecordCarriesPrediction ==
    \A k \in 1..Len(lastTick.returned) :
       LET d == lastTick.returned[k]
       IN  /\ "prediction" \in DOMAIN d
           /\ d.prediction = (IF d.is_improper = 1 THEN "Robot" ELSE "Person")

\* C8: every record run_detection_once produces, an inference failure
\* included, has a score in [0, 1]; so has every data row of the log.
C8_ScoreInUnitInterval ==
    /\ \A k \in 1..Len(lastTick.returned) :
          lastTick.returned[k].score \in 0..100
    /\ \A i \in DataRowIndexes : logFile.rows[i][4] \in ScoreCells(0..100)

\* C8's case: a label-only model flagged an anomaly (score 0.8) and the row
\* is in the log, and a later inference failed (score 0.1).
C8_Witness ==
    /\ ~hasProba
    /\ lastTick.errors = {"inference"}
    /\ lastTick.returned[1].score = 10
    /\ \E i \in DataRowIndexes : logFile.rows[i][4] = "80"

\* The array of a feature dict in the fixed feature order.
RawArray(f) ==
    <<f.avg_mouse_speed, f.avg_typing_speed, f.tab_switch_rate,
      f.mouse_click_rate, f.keyboard_error_rate, f.active_window_duration>>

\* C9: when the model answers, the score follows the mapping: with
\* probability output of two or more values it is the value at index 1,
\* with exactly one value it is that value, with label output it is 0.8
\* (improper) for the label -1 and 0.2 (not improper) for any other label.
\* The model is invoked on the scaler-transformed array when a scaler is
\* present, on the raw array in the fixed feature order otherwise.
C9_ScoreMapping ==
    /\ (lastTick.out # <<>> /\ ~lastTick.out[1].raises)
         => LET vals == lastTick.out[1].vals
                d == lastTick.returned[1]
            IN  /\ (hasProba /\ Len(vals) >= 2) => d.score = vals[2]
                /\ (hasProba /\ Len(vals) = 1) => d.score = vals[1]
                /\ (~hasProba /\ vals[1] = -1)
                      => (d.score = 80 /\ d.is_improper = 1)
                /\ (~hasProba /\ vals[1] # -1)
                      => (d.score = 20 /\ d.is_improper = 0)
    /\ (lastTick.invoked # <<>>)
         => LET raw == RawArray(lastTick.features[1])
            IN  lastTick.invoked[1] =
                  (IF scaler
                   THEN [i \in 1..6 |-> raw[i] - base_features[FeatureOrder[i]]]
                   ELSE raw)

\* C9's case: a scaled, two-class probability answer whose index-1 value
\* differs from its index-0 value.
C9_Witness ==
    /\ hasProba /\ scaler
    /\ lastTick.out # <<>>
    /\ lastTick.out[1].vals = <<10, 90>>
    /\ lastTick.returned[1].score = 90
    /\ lastTick.invoked[1] # RawArray(lastTick.features[1])

\* The lines printed so far.
NoticeCount(c) ==
    c["Started cloud simulation monitor"] + c["Stopped cloud simulation monitor"]
    + c["Prediction error"] + c["Detection error"] + c["Logging error"]

\* C7: the running flag is false initially, true after start() and false
\* after stop(), whatever the sequence of calls; start() and stop() change
\* nothing but the flag and print one notice each, their own, so that
\* start() followed by stop() leaves the flag false, two notices and no
\* row appended.
C7_StartStopToggleOnlyTheFlag ==
    /\ [](is_running = (lastToggle = "start"))
    /\ [][(toggles' # toggles)
            => /\ NoticeCount(console') = NoticeCount(console) + 1
               /\ console'[IF is_running'
                            THEN "Started cloud simulation monitor"
                            ELSE "Stopped cloud simulation monitor"]
                    = console[IF is_running'
                              THEN "Started cloud simulation monitor"
                              ELSE "Stopped cloud simulation monitor"] + 1
               /\ UNCHANGED <<hasProba, scaler, model_name, logFile, ticks,
                              lastTick, nReturned, nAppended>>
          ]_vars

\* C7's case: start() then stop() on a fresh monitor, nothing else called.
C7_Witness ==
    /\ lastToggle = "stop" /\ toggles = 2 /\ ticks = 0
    /\ ~is_running
    /\ console["Started cloud simulation monitor"] = 1
    /\ console["Stopped cloud simulation monitor"] = 1
    /\ NoticeCount(console) = 2
    /\ logFile.rows = <<headers>>

\* C10, as claimed: a caller that clears is_running at any point, before
\* run sets the flag included, makes run leave its loop at its next check.
C10_AnyClearStopsAtNextCheck ==
    [][(clearedEver /\ botPc = "check" /\ botPc' # "check")
        => botPc' = "final"]_vars

\* C10, amended: run always terminates; its loop exits at the first check
\* at which the duration has elapsed or the flag is observed false, and at
\* no other; a caller that clears is_running after run has set it makes run
\* leave the loop at its next check (a clear before run sets the flag is
\* overwritten, and run goes on until the duration has elapsed); when run
\* has returned, is_running is false.
C10_TerminatesAndStopsOnClear ==
    /\ <>(botPc = "done")
    /\ [][(botPc = "check" /\ botPc' # "check")
            => ((botPc' = "final")
                  <=> (now - start_time >= duration_sec \/ ~bot_is_running))
          ]_vars
    /\ [][(clearedSinceSet /\ botPc = "check" /\ botPc' # "check")
            => botPc' = "final"]_vars
    /\ [](botPc = "done" => ~bot_is_running)

\* C10's case: the flag was cleared while run was looping and run returned
\* before its duration had elapsed.
C10_Witness ==
    /\ botPc = "done"
    /\ clearedSinceSet
    /\ now - start_time < duration_sec

\* The candidates whose model file exists and deserializes.
Loadable == {i \in 1..Len(model_files) : fs[i].model = "ok"}

FirstLoadable == CHOOSE i \in Loadable : \A j \in Loadable : i <= j

\* C5, as claimed: once a candidate's model file has deserialized, that
\* model is what the loader returns; its scaler is best effort, so with the
\* scaler file absent or failing to deserialize the loader still returns
\* that model, with no scaler.
C5_ScalerIsBestEffort ==
    (loadedModels # <<>>)
      => /\ loaderPc = "done"
         /\ loaderResult[1][1] = loadedModels[1]
         /\ \A i \in 1..Len(model_files) :
               (model_files[i].name = loadedModels[1] /\ fs[i].scaler # "ok")
                 => loaderResult[1][3] = "None"

\* C6, as claimed: the loader returns the first candidate, in the order
\* RandomForest, XGBoost, IsolationForest, whose file exists and
\* deserializes; with no such candidate and the classifier library
\* available it does not fail and returns ("Demo_RandomForest", the demo
\* model, None, None); the fourth element is None in every outcome.
C6_FirstLoadableOrDemo ==
    /\ (loaderPc = "raised") => ~libs.sklearn
    /\ (loaderPc = "done")
         => /\ loaderResult[1][4] = "None"
            /\ IF Loadable = {}
               THEN loaderResult[1] =
                      <<"Demo_RandomForest", "demo_model", "None", "None">>
               ELSE /\ loaderResult[1][1] = model_files[FirstLoadable].name
                    /\ loaderResult[1][2] = model_files[FirstLoadable].path

====
